---- MODULE Spec2Model ----
(***************************************************************************)
(* Stale-branch Slack notifier (src/index.ts, and the older root variant   *)
(* of the same action).  The run enumerates the non-protected branches of  *)
(* a repository page by page, classifies them in batches of concurrent     *)
(* tasks, groups the stale ones by author, sorts every author's list and   *)
(* posts one message per author.  Every GitHub call of src/index.ts goes   *)
(* through makeRequestWithRetry.                                           *)
(*                                                                         *)
(* Numbers of days are kept as integers counting clock ticks, TicksPerDay  *)
(* ticks to the day, so that fractional ages exist.  JavaScript strings    *)
(* are TLA+ strings.                                                       *)
(***************************************************************************)
EXTENDS Integers, Sequences, FiniteSets, TLC

VARIABLES
    \* parseTime called on its own
    days, timeFormat,
    \* getSlackUsername called on its own
    SLACK_USERS, gitUsername, slackName,
    \* makeRequestWithRetry called on its own
    maxRetries, call, calls, waits, failures,
    \* which program runs: "src" (src/index.ts) or "root" (the older index.ts)
    variant,
    \* the inputs of a run: the action's inputs and the environment
    inputs,
    \* the repository: which commits its branches have ("main" or "keys"), and
    \* the number of its non-protected branches
    repository, repoSize,
    \* run(): where it stands, and its locals
    pc, daysBeforeStale, branches, staleBranchesByAuthor, i, task, author,
    \* the older run(): the branches its filter kept
    staleBranches,
    \* the branches whose commit has been received, and those whose task has
    \* ended in the warning of line 60
    classified, warned,
    \* getAllBranches(): its locals, and the pages it has received
    page, listCall, pagesFetched,
    \* what the run has done: the requests it has issued, the POSTs delivered,
    \* core.setFailed(message)
    network, posts, failed

(***************************************************************************)
(* Bounds of the model                                                     *)
(***************************************************************************)
\* parseTime is applied to 0 .. MaxDays days
MaxDays == 800
\* SLACK_USERS is a string of at most MaxEnvLen characters
MaxEnvLen == 4
\* makeRequestWithRetry is called with maxRetries in 1 .. MaxMaxRetries
MaxMaxRetries == 5
\* a run meets a repository of 0 .. MaxBranches branches
MaxBranches == 11
\* and, with a negative threshold or in the older program, of
\* 0 .. MaxFewBranches branches
MaxFewBranches == 5
\* and, with a high threshold, of per_page + 1 .. per_page + MaxSecondPage
MaxSecondPage == 1
\* getAllBranches on its own meets a repository of 0 .. MaxRepoSize branches
MaxRepoSize == 250
\* a run meets the repository "keys" with 0 .. MaxKeyBranches branches
MaxKeyBranches == 6

(***************************************************************************)
(* Values of the JavaScript run time                                       *)
(***************************************************************************)
\* model clock ticks in one day: the code divides milliseconds by 86400000
TicksPerDay == 2

Min(a, b) == IF a <= b THEN a ELSE b

\* the remainder operator %: the result has the sign of the dividend
JsRem(a, b) == IF a >= 0 THEN a % b ELSE -((-a) % b)

\* a number: NaN, or the integer v
NaN == [nan |-> TRUE, v |-> 0]
Num(n) == [nan |-> FALSE, v |-> n]

\* the value of one decimal digit character
digit(c) ==
    CASE c = "0" -> 0 [] c = "1" -> 1 [] c = "2" -> 2 [] c = "3" -> 3
      [] c = "4" -> 4 [] c = "5" -> 5 [] c = "6" -> 6 [] c = "7" -> 7
      [] c = "8" -> 8 [] c = "9" -> 9 [] OTHER -> -1

\* the value of the longest prefix of decimal digits of s, after acc;
\* seen says whether a digit has been read
RECURSIVE digitsFrom(_, _, _)
digitsFrom(s, acc, seen) ==
    IF Len(s) = 0 \/ digit(SubSeq(s, 1, 1)) < 0
    THEN (IF seen THEN Num(acc) ELSE NaN)
    ELSE digitsFrom(SubSeq(s, 2, Len(s)), 10 * acc + digit(SubSeq(s, 1, 1)), TRUE)

\* parseInt(s): leading blanks, an optional sign, then decimal digits up to
\* the first other character; NaN when there is no digit
RECURSIVE parseInt(_)
parseInt(s) ==
    IF Len(s) = 0 THEN NaN
    ELSE IF SubSeq(s, 1, 1) = " " THEN parseInt(SubSeq(s, 2, Len(s)))
    ELSE IF SubSeq(s, 1, 1) = "-"
         THEN LET n == digitsFrom(SubSeq(s, 2, Len(s)), 0, FALSE)
              IN  IF n.nan THEN NaN ELSE Num(-n.v)
    ELSE IF SubSeq(s, 1, 1) = "+" THEN digitsFrom(SubSeq(s, 2, Len(s)), 0, FALSE)
    ELSE digitsFrom(s, 0, FALSE)

\* an optional string: undefined, or the string s
Undefined == [def |-> FALSE, s |-> ""]
Str(s) == [def |-> TRUE, s |-> s]

\* v || d on an optional string: undefined and "" are falsy
OrElse(v, d) == IF v.def /\ v.s # "" THEN v.s ELSE d

\* undefined + "text": undefined is converted to the string "undefined"
ToStr(v) == IF v.def THEN v.s ELSE "undefined"

\* String.prototype.trim
RECURSIVE trim(_)
trim(s) ==
    IF Len(s) = 0 THEN s
    ELSE IF SubSeq(s, 1, 1) = " " THEN trim(SubSeq(s, 2, Len(s)))
    ELSE IF SubSeq(s, Len(s), Len(s)) = " " THEN trim(SubSeq(s, 1, Len(s) - 1))
    ELSE s

\* String.prototype.split(sep) for a one-character separator: the pieces
\* between the separators, in order ("" gives one empty piece)
RECURSIVE splitFrom(_, _, _)
splitFrom(s, sep, piece) ==
    IF Len(s) = 0 THEN <<piece>>
    ELSE IF SubSeq(s, 1, 1) = sep
         THEN <<piece>> \o splitFrom(SubSeq(s, 2, Len(s)), sep, "")
         ELSE splitFrom(SubSeq(s, 2, Len(s)), sep, piece \o SubSeq(s, 1, 1))

split(s, sep) == splitFrom(s, sep, "")

(***************************************************************************)
(* parseTime (src/index.ts 154-178)                                        *)
(***************************************************************************)
\* Math.floor(days / 365)
years(d) == d \div (365 * TicksPerDay)

\* Math.floor((days % 365) / 30)
months(d) == JsRem(d, 365 * TicksPerDay) \div (30 * TicksPerDay)

\* Math.floor(days % 30)
remainingDays(d) == JsRem(d, 30 * TicksPerDay) \div TicksPerDay

\* formatTime returning timeFormat as built, without trim()
formatTime_untrimmed(y, m, r) ==
    LET t1 == IF y > 0
              THEN ToString(y) \o " year" \o (IF y > 1 THEN "s" ELSE "") \o " "
              ELSE ""
        t2 == IF m > 0
              THEN t1 \o ToString(m) \o " month" \o (IF m > 1 THEN "s" ELSE "") \o " "
              ELSE t1
        t3 == IF r > 0
              THEN t2 \o ToString(r) \o " day" \o (IF r > 1 THEN "s" ELSE "") \o " "
              ELSE t2
    IN  IF t3 = "" THEN "0 days" ELSE t3

\* lines 159-177: the text built from the three components
formatTime(y, m, r) ==
    LET t1 == IF y > 0
              THEN ToString(y) \o " year" \o (IF y > 1 THEN "s" ELSE "") \o " "
              ELSE ""
        t2 == IF m > 0
              THEN t1 \o ToString(m) \o " month" \o (IF m > 1 THEN "s" ELSE "") \o " "
              ELSE t1
        t3 == IF r > 0
              THEN t2 \o ToString(r) \o " day" \o (IF r > 1 THEN "s" ELSE "") \o " "
              ELSE t2
        t4 == IF t3 = "" THEN "0 days" ELSE t3
    IN  trim(t4)

parseTime(d) == formatTime(years(d), months(d), remainingDays(d))

(***************************************************************************)
(* getSlackUsername (src/index.ts 147-152)                                 *)
(***************************************************************************)
\* Object.fromEntries(entries)[key]: the second element of the last entry
\* whose first element is key; undefined when the entry has one element or
\* no entry has that key
RECURSIVE fromEntriesGet(_, _)
fromEntriesGet(entries, key) ==
    IF entries = <<>> THEN Undefined
    ELSE LET n == Len(entries)
             e == entries[n]
         IN  IF e[1] = key
             THEN (IF Len(e) >= 2 THEN Str(e[2]) ELSE Undefined)
             ELSE fromEntriesGet(SubSeq(entries, 1, n - 1), key)

\* (process.env.SLACK_USERS || "").split(",").map(m => m.split(":"))
slackUserEntries(env) ==
    LET parts == split(OrElse(env, ""), ",")
    IN  [j \in 1..Len(parts) |-> split(parts[j], ":")]

\* slackUsers[gitUsername] + ` (${gitUsername})` || "@" + gitUsername:
\* + binds tighter than ||
getSlackUsername(env, login) ==
    LET slackUsers == slackUserEntries(env)
        left == ToStr(fromEntriesGet(slackUsers, login)) \o " (" \o login \o ")"
    IN  OrElse(Str(left), "@" \o login)

(***************************************************************************)
(* makeRequestWithRetry (src/index.ts 85-113)                              *)
(***************************************************************************)
\* maxRetries = 5, the default every caller of the repository uses
DefaultMaxRetries == 5

\* what a failed request rejects with: the HTTP status of error.response
\* (0: no response), its retry-after header, and the invocation that failed
Errors(id) ==
    [id : {id}, status : {0, 403, 500},
     retryAfter : {Undefined, Str(""), Str("0"), Str("1"), Str("60")}]

NoError == [id |-> 0, status |-> 0, retryAfter |-> Undefined]

\* lines 96-98: a 403 whose retry-after header is truthy
rateLimited(error) ==
    error.status = 403 /\ error.retryAfter.def /\ error.retryAfter.s # ""

\* waitTime with the exponent counted from zero (2^(a-1) seconds)
waitTime_fromZero(error, a) ==
    IF rateLimited(error)
    THEN LET n == parseInt(error.retryAfter.s)
         IN  IF n.nan THEN NaN ELSE Num(n.v * 1000)
    ELSE Num(2^(a - 1) * 1000)

\* lines 99 and 107: the time to wait after failed attempt a, in ms
waitTime(error, a) ==
    IF rateLimited(error)
    THEN LET n == parseInt(error.retryAfter.s)
         IN  IF n.nan THEN NaN ELSE Num(n.v * 1000)
    ELSE Num(2^a * 1000)

\* setTimeout(resolve, ms): a delay that is not a positive number is 0
timerDelay(ms) == IF ms.nan \/ ms.v < 0 THEN 0 ELSE ms.v

\* One call of makeRequestWithRetry: the attempt it is in, where it stands
\* (request: the request is in flight; wait: the timer is running;
\* returned, thrown: it has settled), the response it returned (the
\* invocation that produced it) and the error it threw.
newCall == [attempt |-> 1, st |-> "request", val |-> 0, err |-> NoError]

\* line 91: the request resolves; the wrapper returns its value
requestResolved(c, val) == [c EXCEPT !.st = "returned", !.val = val]

\* requestRejected giving up one attempt early
requestRejected_oneShort(c, max, error) ==
    IF c.attempt >= max - 1
    THEN [c EXCEPT !.st = "thrown", !.err = error]
    ELSE [c EXCEPT !.st = "wait", !.err = error]

\* lines 92-110: the request rejects; at the last attempt the error is
\* rethrown, otherwise the wrapper waits
requestRejected(c, max, error) ==
    IF c.attempt = max
    THEN [c EXCEPT !.st = "thrown", !.err = error]
    ELSE [c EXCEPT !.st = "wait", !.err = error]

\* timerFired starting the same attempt again (the loop counter not
\* advanced)
timerFired_sameAttempt(c) == [c EXCEPT !.st = "request"]

\* timerFired not counting an attempt that ended in a rate-limit wait
timerFired_rateLimitFree(c) ==
    IF rateLimited(c.err)
    THEN [c EXCEPT !.st = "request"]
    ELSE [c EXCEPT !.attempt = c.attempt + 1, !.st = "request"]

\* lines 89, 101-102, 109: the timer fires and the next attempt starts
timerFired(c) == [c EXCEPT !.attempt = c.attempt + 1, !.st = "request"]

(***************************************************************************)
(* The repository and the network                                          *)
(***************************************************************************)
\* Date.now() at line 26, in ticks
Now == 2000

\* The tip commit of branch b, as getCommit returns it: the committer date
\* (def: the field is there; valid: new Date() can read it; time: its time
\* in ticks) and the author's login.
day(n) == n * TicksPerDay

dated(t) == [def |-> TRUE, valid |-> TRUE, time |-> t]
noDate == [def |-> FALSE, valid |-> FALSE, time |-> 0]
badDate == [def |-> TRUE, valid |-> FALSE, time |-> 0]

Catalogue ==
    << [date |-> dated(Now - day(5)),      login |-> Str("alice")],
       [date |-> dated(Now - day(40)),     login |-> Str("alice")],
       [date |-> badDate,                  login |-> Str("bob")],
       [date |-> noDate,                   login |-> Str("alice")],
       [date |-> dated(Now - day(400)),    login |-> Str("alice")],
       [date |-> dated(Now - day(30) + 1), login |-> Str("bob")],
       [date |-> dated(Now - day(40)),     login |-> Undefined],
       [date |-> dated(Now - day(30)),     login |-> Str("bob")],
       [date |-> dated(Now - day(31)),     login |-> Str("alice")],
       [date |-> dated(Now - day(10)),     login |-> Str("carol")],
       [date |-> dated(Now - day(45)),     login |-> Str("carol")],
       [date |-> dated(Now - day(60)),     login |-> Str("")] >>

\* the commits of the repository "keys": two of its authors have a login
\* that is the name of a property every object inherits
KeyCatalogue ==
    << [date |-> dated(Now - day(40)),     login |-> Str("alice")],
       [date |-> dated(Now - day(50)),     login |-> Str("constructor")],
       [date |-> dated(Now - day(35)),     login |-> Str("alice")],
       [date |-> dated(Now - day(45)),     login |-> Undefined],
       [date |-> dated(Now - day(60)),     login |-> Str("toString")],
       [date |-> dated(Now - day(10)),     login |-> Str("constructor")] >>

commitOf(b) ==
    LET all == IF repository = "keys" THEN KeyCatalogue ELSE Catalogue
    IN  all[((b - 1) % Len(all)) + 1]

\* branch.name of branch b
nameOf(b) == "b" \o ToString(b)

\* the branches whose getCommit request may be rejected
FlakyBranches == {2, 11}

\* what a rejected request of a run rejects with
RunErrors ==
    {e \in Errors(0) : (e.status = 403 /\ e.retryAfter = Str("1"))
                        \/ (e.status = 500 /\ e.retryAfter = Undefined)}

\* listBranches({protected: false, per_page, page}): the branches of that
\* page of the repository, in the repository's order
pageOf(n, perPage, p) ==
    [j \in 1..(Min(n, p * perPage) - Min(n, (p - 1) * perPage)) |->
        (p - 1) * perPage + j]

(***************************************************************************)
(* run (src/index.ts 9-83) and getAllBranches (src/index.ts 115-145)       *)
(***************************************************************************)
batchSize == 10
per_page == 100

\* line 134: a page shorter than per_page is the last one (here stopping
\* also at a full page)
lastPage_orFull(data) == Len(data) <= per_page

\* line 134: a page shorter than per_page is the last one
lastPage(data) == Len(data) < per_page

\* core.getInput(name, {required: true}) throws when the input is not set
missingInput(v) == ~v.def \/ v.s = ""

\* lines 44-45: new Date(committer?.date || '') and the age of the commit in
\* ticks; NaN when the committer date is absent or not a date
daysSinceLastCommit(commit) ==
    IF commit.date.def /\ commit.date.valid THEN Num(Now - commit.date.time) ELSE NaN

\* line 47: daysSinceLastCommit >= daysBeforeStale; a comparison with NaN is
\* false
isStale(age, threshold) ==
    ~age.nan /\ ~threshold.nan /\ age.v >= threshold.v * TicksPerDay

\* line 48: commitInfo.data.author?.login || "UNKNOWN"
authorOf(commit) == OrElse(commit.login, "UNKNOWN")

\* staleBranchesByAuthor is created as {}: besides its own keys it has the
\* properties of Object.prototype, none of which is a list
ObjectPrototypeKeys ==
    {"constructor", "toString", "toLocaleString", "valueOf", "hasOwnProperty",
     "isPrototypeOf", "propertyIsEnumerable", "__proto__"}

\* lines 50-54 for such a key: staleBranchesByAuthor[author] is truthy, no
\* list is created, and staleBranchesByAuthor[author].push is not a function
pushThrows(a) == a \in ObjectPrototypeKeys

\* staleBranchesByAuthor is the sequence of its own keys, in insertion order,
\* each with its list
hasAuthor(m, a) == \E j \in 1..Len(m) : m[j].author = a

listOf(m, a) ==
    IF hasAuthor(m, a)
    THEN m[CHOOSE j \in 1..Len(m) : m[j].author = a].list
    ELSE <<>>

\* lines 50-57: create the author's list if there is none, then push
pushStale(m, a, rec) ==
    IF hasAuthor(m, a)
    THEN [j \in 1..Len(m) |->
            IF m[j].author = a THEN [m[j] EXCEPT !.list = Append(@, rec)] ELSE m[j]]
    ELSE Append(m, [author |-> a, list |-> <<rec>>])

\* lines 44-58: what a task does with the commit it received
classify(m, b, threshold) ==
    LET commit == commitOf(b)
        age == daysSinceLastCommit(commit)
    IN  IF isStale(age, threshold)
        THEN pushStale(m, authorOf(commit),
                       [name |-> nameOf(b), daysSinceLastCommit |-> age.v])
        ELSE m

\* the sort with the comparator the other way round (a - b): least first
RECURSIVE insertSorted_ascending(_, _)
insertSorted_ascending(sorted, rec) ==
    IF sorted = <<>> THEN <<rec>>
    ELSE IF rec.daysSinceLastCommit - Head(sorted).daysSinceLastCommit < 0
         THEN <<rec>> \o sorted
         ELSE <<Head(sorted)>> \o insertSorted_ascending(Tail(sorted), rec)

\* Array.prototype.sort((a, b) => b.daysSinceLastCommit - a.daysSinceLastCommit):
\* a stable sort, greatest first
RECURSIVE insertSorted(_, _)
insertSorted(sorted, rec) ==
    IF sorted = <<>> THEN <<rec>>
    ELSE IF rec.daysSinceLastCommit - Head(sorted).daysSinceLastCommit > 0
         THEN <<rec>> \o sorted
         ELSE <<Head(sorted)>> \o insertSorted(Tail(sorted), rec)

RECURSIVE sortList(_)
sortList(list) ==
    IF list = <<>> THEN <<>>
    ELSE insertSorted(sortList(SubSeq(list, 1, Len(list) - 1)), list[Len(list)])

\* lines 66-68
sortAll(m) == [j \in 1..Len(m) |-> [m[j] EXCEPT !.list = sortList(@)]]

\* lines 71-75: the text of the message for one author (the back quotes
\* around a branch name are written ' here)
RECURSIVE branchLines(_)
branchLines(list) ==
    IF list = <<>> THEN ""
    ELSE "'" \o Head(list).name \o "' - stale by "
         \o parseTime(Head(list).daysSinceLastCommit) \o "\n"
         \o branchLines(Tail(list))

messageFor(env, entry) ==
    getSlackUsername(env, entry.author) \o " you have "
    \o ToString(Len(entry.list)) \o " stale branches:\n"
    \o branchLines(entry.list) \o "\n\n====================\n\n"

(***************************************************************************)
(* The groups of variables                                                 *)
(***************************************************************************)
pureVars == <<days, timeFormat, SLACK_USERS, gitUsername, slackName>>
retryVars == <<maxRetries, call, calls, waits, failures>>

\* nothing is asked of parseTime and getSlackUsername
PureIdle ==
    /\ days = 0 /\ timeFormat = Undefined
    /\ SLACK_USERS = Undefined /\ gitUsername = "" /\ slackName = Undefined

\* no call of makeRequestWithRetry on its own
RetryIdle ==
    /\ maxRetries = DefaultMaxRetries /\ call = newCall /\ calls = 0
    /\ waits = <<>> /\ failures = 0

runVars ==
    <<variant, inputs, repository, network, repoSize, staleBranches, classified, warned, pc,
      daysBeforeStale, branches,
      staleBranchesByAuthor,
      i, task, author, page, listCall, pagesFetched, posts, failed>>

vars == <<pureVars, retryVars, runVars>>

(***************************************************************************)
(* A run of src/index.ts                                                   *)
(***************************************************************************)
\* the inputs of the runs considered: the valid ones, and one with each
\* required value missing
ValidInputs ==
    [days : {Str("30"), Str("soon")}, webhook : {Str("https://hook")},
     token : {Str("t")}]

RunInputs ==
    ValidInputs \cup
    { [days |-> Str(""), webhook |-> Str("https://hook"), token |-> Str("t")],
      [days |-> Str("30"), webhook |-> Undefined, token |-> Str("t")],
      [days |-> Str("30"), webhook |-> Str("https://hook"), token |-> Undefined] }

\* a threshold below zero, met with repositories of few branches
NegativeInputs ==
    {[days |-> Str("-1"), webhook |-> Str("https://hook"), token |-> Str("t")]}

\* a high threshold, met with repositories of more than one page
HighInputs ==
    {[days |-> Str("400"), webhook |-> Str("https://hook"), token |-> Str("t")]}

\* the requests a run has issued: whether it has called listBranches,
\* getCommit and (the older program) getBranch, and how many POSTs to the
\* webhook it has made
noRequest ==
    [listBranches |-> FALSE, getCommit |-> FALSE, getBranch |-> FALSE, post |-> 0]

\* a task of Promise.all that has just issued its getCommit request; days
\* is what getDaysSinceLastCommit of the older program returned
newTask == [st |-> "running", call |-> newCall, days |-> NaN]

\* the state of run() before its first statement, for a repository of n
\* branches
RunStart(n) ==
    /\ repoSize = n
    /\ network = noRequest
    /\ pc = "start"
    /\ daysBeforeStale = NaN
    /\ branches = <<>>
    /\ staleBranchesByAuthor = <<>>
    /\ i = 0
    /\ task = [b \in {} |-> newTask]
    /\ classified = {}
    /\ warned = {}
    /\ staleBranches = <<>>
    /\ author = 1
    /\ page = 1
    /\ listCall = newCall
    /\ pagesFetched = <<>>
    /\ posts = <<>>
    /\ failed = Undefined

\* no run
RunIdle ==
    /\ variant = "src"
    /\ repository = "main"
    /\ inputs = [days |-> Str("30"), webhook |-> Str("https://hook"), token |-> Str("t")]
    /\ RunStart(0)

Init ==
    /\ days = 0 /\ timeFormat = Undefined
    /\ SLACK_USERS = Str("alice:@al") /\ gitUsername = "" /\ slackName = Undefined
    /\ RetryIdle
    /\ variant = "src"
    /\ repository = "main"
    /\ \/ inputs \in RunInputs /\ \E n \in 0..MaxBranches : RunStart(n)
       \/ inputs \in NegativeInputs /\ \E n \in 0..MaxFewBranches : RunStart(n)
       \/ inputs \in HighInputs
          /\ \E n \in (per_page + 1)..(per_page + MaxSecondPage) : RunStart(n)

\* error.message of a request that failed
RequestFailed == "Request failed with status code 500"

\* Setup reading slack-webhook-url without {required: true}: a missing URL
\* is the empty string and the run goes on
Setup_webhookOptional ==
    /\ pc = "start"
    /\ IF missingInput(inputs.days)
       THEN /\ failed' = Str("Input required and not supplied: days-before-stale")
            /\ pc' = "done"
            /\ UNCHANGED daysBeforeStale
       ELSE IF ~inputs.token.def
       THEN /\ failed' = Str("STALE_BRANCH_TOKEN environment variable is not defined")
            /\ pc' = "done"
            /\ daysBeforeStale' = parseInt(inputs.days.s)
       ELSE /\ daysBeforeStale' = parseInt(inputs.days.s)
            /\ pc' = "enumerate"
            /\ UNCHANGED failed
    /\ network' = IF pc' = "enumerate"
                  THEN [network EXCEPT !.listBranches = TRUE] ELSE network
    /\ UNCHANGED <<variant, inputs, repository, repoSize, staleBranches, classified, warned, branches, staleBranchesByAuthor, i, task,
                   author, page, listCall, pagesFetched, posts>>
    /\ UNCHANGED <<pureVars, retryVars>>

\* lines 10-23: read the inputs and the token, then call getAllBranches,
\* whose first request is issued; a missing value throws, and the catch
\* at lines 80-82 marks the run failed
Setup ==
    /\ pc = "start"
    /\ IF missingInput(inputs.days)
       THEN /\ failed' = Str("Input required and not supplied: days-before-stale")
            /\ pc' = "done"
            /\ UNCHANGED daysBeforeStale
       ELSE IF missingInput(inputs.webhook)
       THEN /\ failed' = Str("Input required and not supplied: slack-webhook-url")
            /\ pc' = "done"
            /\ daysBeforeStale' = parseInt(inputs.days.s)
       ELSE IF ~inputs.token.def
       THEN /\ failed' = Str("STALE_BRANCH_TOKEN environment variable is not defined")
            /\ pc' = "done"
            /\ daysBeforeStale' = parseInt(inputs.days.s)
       ELSE /\ daysBeforeStale' = parseInt(inputs.days.s)
            /\ pc' = "enumerate"
            /\ UNCHANGED failed
    /\ network' = IF pc' = "enumerate"
                  THEN [network EXCEPT !.listBranches = TRUE] ELSE network
    /\ UNCHANGED <<variant, inputs, repository, repoSize, staleBranches, classified, warned, branches, staleBranchesByAuthor, i, task,
                   author, page, listCall, pagesFetched, posts>>
    /\ UNCHANGED <<pureVars, retryVars>>

\* lines 122-138: a page arrives; a short page ends the loop and
\* getAllBranches returns, a full page asks for the next one
ListResolve ==
    /\ variant = "src"
    /\ pc = "enumerate" /\ listCall.st = "request"
    /\ LET data == pageOf(repoSize, per_page, page)
       IN  /\ branches' = branches \o data
           /\ pagesFetched' = Append(pagesFetched, page)
           /\ IF lastPage(data)
              THEN pc' = "classify" /\ page' = page
              ELSE pc' = "enumerate" /\ page' = page + 1
    /\ listCall' = newCall
    /\ UNCHANGED <<variant, inputs, repository, network, repoSize, staleBranches, classified, warned, daysBeforeStale, staleBranchesByAuthor, i,
                   task, author, posts, failed>>
    /\ UNCHANGED <<pureVars, retryVars>>

\* the request for a page is rejected, and getAllBranches has no catch: the
\* error of the last attempt reaches the catch of run(), which marks the run
\* failed
ListReject_uncaught ==
    /\ variant = "src"
    /\ pc = "enumerate" /\ listCall.st = "request"
    /\ \E error \in RunErrors :
         LET c == requestRejected(listCall, DefaultMaxRetries, error)
         IN  listCall' = IF c.st = "thrown" THEN [c EXCEPT !.err = NoError] ELSE c
    /\ pc' = IF listCall'.st = "thrown" THEN "done" ELSE "enumerate"
    /\ failed' = IF listCall'.st = "thrown" THEN Str(RequestFailed) ELSE failed
    /\ UNCHANGED <<variant, inputs, repository, network, repoSize, staleBranches, classified, warned, daysBeforeStale, branches,
                   staleBranchesByAuthor, i, task, author, page, pagesFetched,
                   posts>>
    /\ UNCHANGED <<pureVars, retryVars>>

\* the request for a page is rejected: the wrapper waits, or at its last
\* attempt throws, and the catch at lines 140-142 logs a warning and
\* getAllBranches returns what it has
ListReject ==
    /\ variant = "src"
    /\ pc = "enumerate" /\ listCall.st = "request"
    /\ \E error \in RunErrors :
         LET c == requestRejected(listCall, DefaultMaxRetries, error)
         IN  listCall' = IF c.st = "thrown" THEN [c EXCEPT !.err = NoError] ELSE c
    /\ pc' = IF listCall'.st = "thrown" THEN "classify" ELSE "enumerate"
    /\ UNCHANGED <<variant, inputs, repository, network, repoSize, staleBranches, classified, warned, daysBeforeStale, branches,
                   staleBranchesByAuthor, i, task, author, page, pagesFetched,
                   posts, failed>>
    /\ UNCHANGED <<pureVars, retryVars>>

\* the wait before the next attempt at the page ends
ListTimer ==
    /\ variant = "src"
    /\ pc = "enumerate" /\ listCall.st = "wait"
    /\ listCall' = timerFired(listCall)
    /\ UNCHANGED <<variant, inputs, repository, network, repoSize, staleBranches, classified, warned, pc, daysBeforeStale, branches,
                   staleBranchesByAuthor, i, task, author, page, pagesFetched,
                   posts, failed>>
    /\ UNCHANGED <<pureVars, retryVars>>

\* line 31: branches.slice(i, i + batchSize)
batchBranches(all, from) ==
    {all[j] : j \in (from + 1)..Min(from + batchSize, Len(all))}

\* lines 30-42: the next batch: every task of the slice starts and issues
\* its getCommit request
StartBatch ==
    /\ variant = "src"
    /\ pc = "classify" /\ i < Len(branches)
    /\ task' = [b \in DOMAIN task \cup batchBranches(branches, i) |->
                  IF b \in DOMAIN task THEN task[b] ELSE newTask]
    /\ pc' = "batch"
    /\ network' = [network EXCEPT !.getCommit = TRUE]
    /\ UNCHANGED <<variant, inputs, repository, repoSize, staleBranches, classified, warned,
                   daysBeforeStale, branches, staleBranchesByAuthor, i, author,
                   page, listCall, pagesFetched, posts, failed>>
    /\ UNCHANGED <<pureVars, retryVars>>

\* lines 44-61: the task of branch b throws at the push, and its catch logs
\* a warning
taskThrows(b, threshold) ==
    /\ isStale(daysSinceLastCommit(commitOf(b)), threshold)
    /\ pushThrows(authorOf(commitOf(b)))

\* lines 36-61: the commit of branch b arrives and its task runs to its end,
\* or to the catch when the push throws
CommitResolve ==
    \E b \in DOMAIN task :
        /\ variant = "src" /\ task[b].call.st = "request"
        /\ IF taskThrows(b, daysBeforeStale)
           THEN /\ warned' = warned \cup {b}
                /\ UNCHANGED staleBranchesByAuthor
           ELSE /\ staleBranchesByAuthor' =
                       classify(staleBranchesByAuthor, b, daysBeforeStale)
                /\ UNCHANGED warned
        /\ task' = [c \in DOMAIN task \ {b} |-> task[c]]
        /\ classified' = classified \cup {b}
        /\ UNCHANGED <<variant, inputs, repository, network, repoSize, staleBranches, pc,
                       daysBeforeStale, branches, i, author, page, listCall,
                       pagesFetched, posts, failed>>
        /\ UNCHANGED <<pureVars, retryVars>>

\* the getCommit request of branch b is rejected, and the task has no catch:
\* the error of the last attempt rejects Promise.all and reaches the catch of
\* run(), which marks the run failed
CommitReject_uncaught ==
    \E b \in DOMAIN task :
        /\ variant = "src" /\ task[b].call.st = "request"
        /\ b \in FlakyBranches
        /\ \E error \in RunErrors :
             LET c == requestRejected(task[b].call, DefaultMaxRetries, error)
             IN  IF c.st = "thrown"
                 THEN /\ task' = [d \in DOMAIN task \ {b} |-> task[d]]
                      /\ warned' = warned \cup {b}
                      /\ failed' = Str(RequestFailed)
                      /\ pc' = "done"
                 ELSE /\ task' = [task EXCEPT ![b].call = c]
                      /\ UNCHANGED <<warned, failed, pc>>
        /\ UNCHANGED <<variant, inputs, repository, network, repoSize, staleBranches, classified,
                       daysBeforeStale, branches, staleBranchesByAuthor, i, author,
                       page, listCall, pagesFetched, posts>>
        /\ UNCHANGED <<pureVars, retryVars>>

\* the getCommit request of branch b is rejected: the wrapper waits, or at
\* its last attempt throws, and the catch at lines 59-61 logs a warning
CommitReject ==
    \E b \in DOMAIN task :
        /\ variant = "src" /\ task[b].call.st = "request"
        /\ b \in FlakyBranches
        /\ \E error \in RunErrors :
             LET c == requestRejected(task[b].call, DefaultMaxRetries, error)
             IN  IF c.st = "thrown"
                 THEN /\ task' = [d \in DOMAIN task \ {b} |-> task[d]]
                      /\ warned' = warned \cup {b}
                 ELSE /\ task' = [task EXCEPT ![b].call = c]
                      /\ UNCHANGED warned
        /\ UNCHANGED <<variant, inputs, repository, network, repoSize, staleBranches, classified, pc,
                       daysBeforeStale, branches, staleBranchesByAuthor, i, author,
                       page, listCall, pagesFetched, posts, failed>>
        /\ UNCHANGED <<pureVars, retryVars>>

\* the wait before the next attempt at the commit of branch b ends
CommitTimer ==
    \E b \in DOMAIN task :
        /\ variant = "src" /\ task[b].call.st = "wait"
        /\ task' = [task EXCEPT ![b].call = timerFired(@)]
        /\ UNCHANGED <<variant, inputs, repository, network, repoSize, staleBranches, classified, warned,
                       pc, daysBeforeStale, branches, staleBranchesByAuthor, i,
                       author, page, listCall, pagesFetched, posts, failed>>
        /\ UNCHANGED <<pureVars, retryVars>>

\* the loop goes on as soon as one task of the batch has ended (Promise.race
\* in place of Promise.all)
BatchDone_any ==
    /\ pc = "batch"
    /\ \E b \in batchBranches(branches, i) : b \in classified \cup warned
    /\ i' = i + batchSize
    /\ pc' = "classify"
    /\ UNCHANGED <<variant, inputs, repository, network, repoSize, staleBranches, classified, warned,
                   daysBeforeStale, branches, staleBranchesByAuthor, task, author,
                   page, listCall, pagesFetched, posts, failed>>
    /\ UNCHANGED <<pureVars, retryVars>>

\* lines 33 and 30: Promise.all resolves when every task of the batch has
\* ended; i += batchSize
BatchDone ==
    /\ pc = "batch"
    /\ \A b \in batchBranches(branches, i) : b \in classified \cup warned
    /\ i' = i + batchSize
    /\ pc' = "classify"
    /\ UNCHANGED <<variant, inputs, repository, network, repoSize, staleBranches, classified, warned,
                   daysBeforeStale, branches, staleBranchesByAuthor, task, author,
                   page, listCall, pagesFetched, posts, failed>>
    /\ UNCHANGED <<pureVars, retryVars>>

\* the batch loop left after any batch (its condition tested against the
\* wrong length)
SortLists_early ==
    /\ pc = "classify"
    /\ staleBranchesByAuthor' = sortAll(staleBranchesByAuthor)
    /\ pc' = "notify"
    /\ author' = 1
    /\ UNCHANGED <<variant, inputs, repository, network, repoSize, staleBranches, classified, warned, daysBeforeStale, branches, i, task, page,
                   listCall, pagesFetched, posts, failed>>
    /\ UNCHANGED <<pureVars, retryVars>>

\* lines 66-68: after the last batch every list is sorted
SortLists ==
    /\ pc = "classify" /\ i >= Len(branches)
    /\ staleBranchesByAuthor' = sortAll(staleBranchesByAuthor)
    /\ pc' = "notify"
    /\ author' = 1
    /\ UNCHANGED <<variant, inputs, repository, network, repoSize, staleBranches, classified, warned, daysBeforeStale, branches, i, task, page,
                   listCall, pagesFetched, posts, failed>>
    /\ UNCHANGED <<pureVars, retryVars>>

\* lines 70-78: the message of the next author is built and posted
PostSend ==
    /\ pc = "notify" /\ author <= Len(staleBranchesByAuthor)
    /\ pc' = "post"
    /\ network' = [network EXCEPT !.post = @ + 1]
    /\ UNCHANGED <<variant, inputs, repository, repoSize, staleBranches, classified, warned, daysBeforeStale, branches,
                   staleBranchesByAuthor, i, task, author, page, listCall,
                   pagesFetched, posts, failed>>
    /\ UNCHANGED <<pureVars, retryVars>>

\* the webhook accepts the POST; the loop goes on to the next author
PostResolve ==
    /\ pc = "post"
    /\ LET entry == staleBranchesByAuthor[author]
       IN  posts' = Append(posts, [author |-> entry.author,
                                   list |-> entry.list,
                                   text |-> messageFor(SLACK_USERS, entry)])
    /\ author' = author + 1
    /\ pc' = "notify"
    /\ UNCHANGED <<variant, inputs, repository, network, repoSize, staleBranches, classified, warned, daysBeforeStale, branches,
                   staleBranchesByAuthor, i, task, page, listCall,
                   pagesFetched, failed>>
    /\ UNCHANGED <<pureVars, retryVars>>

\* the POST fails and is caught inside the loop: the failure is reported and
\* the loop goes on to the next author
PostReject_continue ==
    /\ pc = "post"
    /\ failed' = Str(RequestFailed)
    /\ author' = author + 1
    /\ pc' = "notify"
    /\ UNCHANGED <<variant, inputs, repository, network, repoSize, staleBranches, classified, warned, daysBeforeStale, branches,
                   staleBranchesByAuthor, i, task, page, listCall,
                   pagesFetched, posts>>
    /\ UNCHANGED <<pureVars, retryVars>>

\* the POST fails and the catch at lines 80-82 only logs the error
PostReject_swallowed ==
    /\ pc = "post"
    /\ pc' = "done"
    /\ UNCHANGED <<variant, inputs, repository, network, repoSize, staleBranches, classified, warned, daysBeforeStale, branches,
                   staleBranchesByAuthor, i, task, author, page, listCall,
                   pagesFetched, posts, failed>>
    /\ UNCHANGED <<pureVars, retryVars>>

\* the POST fails: axios throws, and the catch at lines 80-82 marks the run
\* failed with the error's message
PostReject ==
    /\ pc = "post"
    /\ failed' = Str(RequestFailed)
    /\ pc' = "done"
    /\ UNCHANGED <<variant, inputs, repository, network, repoSize, staleBranches, classified, warned, daysBeforeStale, branches,
                   staleBranchesByAuthor, i, task, author, page, listCall,
                   pagesFetched, posts>>
    /\ UNCHANGED <<pureVars, retryVars>>

\* the loop of lines 70-79 has visited every author: run() returns
Finish ==
    /\ pc = "notify" /\ author > Len(staleBranchesByAuthor)
    /\ pc' = "done"
    /\ UNCHANGED <<variant, inputs, repository, network, repoSize, staleBranches, classified, warned, daysBeforeStale, branches,
                   staleBranchesByAuthor, i, task, author, page, listCall,
                   pagesFetched, posts, failed>>
    /\ UNCHANGED <<pureVars, retryVars>>

Enumerate == ListResolve \/ ListReject \/ ListTimer

Next ==
    \/ Setup
    \/ Enumerate
    \/ StartBatch
    \/ CommitResolve \/ CommitReject \/ CommitTimer
    \/ BatchDone
    \/ SortLists
    \/ PostSend \/ PostResolve \/ PostReject
    \/ Finish

Spec == Init /\ [][Next]_vars

\* a run of src/index.ts on the repository "keys"
KeysInit ==
    /\ days = 0 /\ timeFormat = Undefined
    /\ SLACK_USERS = Str("alice:@al") /\ gitUsername = "" /\ slackName = Undefined
    /\ RetryIdle
    /\ variant = "src"
    /\ repository = "keys"
    /\ inputs \in ValidInputs
    /\ \E n \in 0..MaxKeyBranches : RunStart(n)

SpecKeys == KeysInit /\ [][Next]_vars

(***************************************************************************)
(* A run of the older index.ts (src/unnamed/part_000): no retry, every      *)
(* commit fetched at once, the author fetched branch by branch             *)
(***************************************************************************)
\* getDaysSinceLastCommit, lines 149-161: -1 when the commit has no committer
\* date; a date that cannot be read gives an Invalid Date, which is an
\* object, and the age is NaN
oldDaysSinceLastCommit(commit) ==
    IF ~commit.date.def THEN Num(-1 * TicksPerDay)
    ELSE IF commit.date.valid THEN Num(Now - commit.date.time)
    ELSE NaN

\* lines 36-38: the branches whose age is >= daysBeforeStale, in the order
\* of the branches
RECURSIVE oldFilter(_, _, _)
oldFilter(all, t, threshold) ==
    IF all = <<>> THEN <<>>
    ELSE (IF isStale(t[Head(all)].days, threshold)
          THEN <<[branch |-> Head(all), daysSinceLastCommit |-> t[Head(all)].days.v]>>
          ELSE <<>>)
         \o oldFilter(Tail(all), t, threshold)

\* lines 87-98 and 28-30: a page arrives; a full page asks for the next one,
\* any other ends the loop, and run() starts one task for every branch
OldListResolve ==
    /\ variant = "root"
    /\ pc = "enumerate"
    /\ LET data == pageOf(repoSize, 100, page)
           all == branches \o data
           listed == {all[j] : j \in 1..Len(all)}
       IN  /\ branches' = all
           /\ pagesFetched' = Append(pagesFetched, page)
           /\ page' = page + 1
           /\ IF Len(data) = 100
              THEN pc' = "enumerate" /\ UNCHANGED task
              ELSE /\ pc' = "oldFetch"
                   /\ task' = [b \in listed |-> newTask]
    /\ network' = IF pc' = "oldFetch" /\ branches' # <<>>
                  THEN [network EXCEPT !.getCommit = TRUE] ELSE network
    /\ UNCHANGED <<variant, inputs, repository, repoSize, staleBranches, classified, warned, daysBeforeStale,
                   staleBranchesByAuthor, i, author, listCall, posts, failed>>
    /\ UNCHANGED <<pureVars, retryVars>>

\* the request for a page is rejected: getAllBranches throws and the catch
\* at lines 76-79 marks the run failed
OldListReject ==
    /\ variant = "root"
    /\ pc = "enumerate"
    /\ failed' = Str(RequestFailed)
    /\ pc' = "done"
    /\ UNCHANGED <<variant, inputs, repository, network, repoSize, staleBranches, classified, warned, daysBeforeStale, branches,
                   staleBranchesByAuthor, i, task, author, page, listCall,
                   pagesFetched, posts>>
    /\ UNCHANGED <<pureVars, retryVars>>

\* lines 30-34: the commit of branch b arrives
OldCommitResolve ==
    \E b \in DOMAIN task :
        /\ pc = "oldFetch" /\ task[b].st = "running"
        /\ task' = [task EXCEPT ![b] =
                      [st |-> "done", call |-> newCall,
                       days |-> oldDaysSinceLastCommit(commitOf(b))]]
        /\ UNCHANGED <<variant, inputs, repository, network, repoSize, staleBranches, classified, warned,
                       pc, daysBeforeStale, branches, staleBranchesByAuthor, i,
                       author, page, listCall, pagesFetched, posts, failed>>
        /\ UNCHANGED <<pureVars, retryVars>>

\* the getCommit request of branch b is rejected: Promise.all rejects and
\* the catch at lines 76-79 marks the run failed
OldCommitReject ==
    \E b \in DOMAIN task :
        /\ pc = "oldFetch" /\ task[b].st = "running"
        /\ b \in FlakyBranches
        /\ task' = [task EXCEPT ![b].st = "failed"]
        /\ failed' = Str(RequestFailed)
        /\ pc' = "done"
        /\ UNCHANGED <<variant, inputs, repository, network, repoSize, staleBranches, classified, warned,
                       daysBeforeStale, branches, staleBranchesByAuthor, i, author,
                       page, listCall, pagesFetched, posts>>
        /\ UNCHANGED <<pureVars, retryVars>>

\* lines 36-38: every commit has arrived; the filter keeps the stale ones
OldFilter ==
    /\ pc = "oldFetch"
    /\ \A j \in 1..Len(branches) : task[branches[j]].st = "done"
    /\ staleBranches' = oldFilter(branches, task, daysBeforeStale)
    /\ i' = 0
    /\ pc' = "oldOwner"
    /\ network' = IF staleBranches' # <<>>
                  THEN [network EXCEPT !.getBranch = TRUE] ELSE network
    /\ UNCHANGED <<variant, inputs, repository, repoSize, classified, warned, daysBeforeStale, branches,
                   staleBranchesByAuthor, task, author, page, listCall,
                   pagesFetched, posts, failed>>
    /\ UNCHANGED <<pureVars, retryVars>>

\* error.message of the TypeError of a push on what is not a list
PushFailed == "staleBranchesByAuthor[branchOwner].push is not a function"

\* lines 40-60: getBranch answers for the next stale branch, which is pushed
\* on the list of the author of its commit; a push that throws reaches the
\* catch at lines 76-79
OldGetBranchResolve ==
    /\ pc = "oldOwner" /\ i < Len(staleBranches)
    /\ LET staleBranch == staleBranches[i + 1]
           branchOwner == authorOf(commitOf(staleBranch.branch))
       IN  IF pushThrows(branchOwner)
           THEN /\ failed' = Str(PushFailed)
                /\ pc' = "done"
                /\ UNCHANGED <<staleBranchesByAuthor, i>>
           ELSE /\ staleBranchesByAuthor' =
                       pushStale(staleBranchesByAuthor, branchOwner,
                                 [name |-> nameOf(staleBranch.branch),
                                  daysSinceLastCommit |-> staleBranch.daysSinceLastCommit])
                /\ i' = i + 1
                /\ UNCHANGED <<failed, pc>>
    /\ UNCHANGED <<variant, inputs, repository, network, repoSize, staleBranches, classified, warned, daysBeforeStale,
                   branches, task, author, page, listCall, pagesFetched, posts>>
    /\ UNCHANGED <<pureVars, retryVars>>

\* the getBranch request is rejected: the catch at lines 76-79 marks the run
\* failed
OldGetBranchReject ==
    /\ pc = "oldOwner" /\ i < Len(staleBranches)
    /\ failed' = Str(RequestFailed)
    /\ pc' = "done"
    /\ UNCHANGED <<variant, inputs, repository, network, repoSize, staleBranches, classified, warned, daysBeforeStale, branches,
                   staleBranchesByAuthor, i, task, author, page, listCall,
                   pagesFetched, posts>>
    /\ UNCHANGED <<pureVars, retryVars>>

\* lines 62-64: after the last stale branch every list is sorted
OldSortLists ==
    /\ pc = "oldOwner" /\ i >= Len(staleBranches)
    /\ staleBranchesByAuthor' = sortAll(staleBranchesByAuthor)
    /\ pc' = "notify"
    /\ author' = 1
    /\ UNCHANGED <<variant, inputs, repository, network, repoSize, staleBranches, classified, warned, daysBeforeStale, branches,
                   i, task, page, listCall, pagesFetched, posts, failed>>
    /\ UNCHANGED <<pureVars, retryVars>>

OldEnumerate == OldListResolve \/ OldListReject

OldInputs ==
    [days : {Str("30"), Str("-1"), Str("soon")}, webhook : {Str("https://hook")},
     token : {Str("t")}]

OldInit ==
    /\ days = 0 /\ timeFormat = Undefined
    /\ SLACK_USERS = Str("alice:@al") /\ gitUsername = "" /\ slackName = Undefined
    /\ RetryIdle
    /\ variant = "root"
    /\ repository = "main"
    /\ inputs \in OldInputs
    /\ \E n \in 0..MaxFewBranches : RunStart(n)

OldNext ==
    \/ Setup
    \/ OldEnumerate
    \/ OldCommitResolve \/ OldCommitReject
    \/ OldFilter
    \/ OldGetBranchResolve \/ OldGetBranchReject
    \/ OldSortLists
    \/ PostSend \/ PostResolve \/ PostReject
    \/ Finish

SpecOld == OldInit /\ [][OldNext]_vars

\* getAllBranches on its own: the run up to the return of getAllBranches
PagesInit ==
    /\ PureIdle /\ RetryIdle
    /\ variant \in {"src", "root"}
    /\ repository = "main"
    /\ inputs = [days |-> Str("30"), webhook |-> Str("https://hook"), token |-> Str("t")]
    /\ \E n \in 0..MaxRepoSize : RunStart(n)

SpecPages == PagesInit /\ [][Setup \/ Enumerate \/ OldEnumerate]_vars

(***************************************************************************)
(* The pure functions and the retry wrapper, each called on its own        *)
(***************************************************************************)
\* the strings of at most n characters of Alphabet
EnvAlphabet == {"a", "b", "@", ":", ","}

RECURSIVE StringsUpTo(_)
StringsUpTo(n) ==
    IF n = 0 THEN {""}
    ELSE LET shorter == StringsUpTo(n - 1)
         IN  shorter \cup {x \o c : x \in shorter, c \in EnvAlphabet}

Logins == {"a", "ab"}

\* ---- parseTime ----
ParseInit ==
    /\ days \in 0..(MaxDays * TicksPerDay) /\ timeFormat = Undefined
    /\ SLACK_USERS = Undefined /\ gitUsername = "" /\ slackName = Undefined
    /\ RetryIdle /\ RunIdle

ParseTimeCall ==
    /\ ~timeFormat.def
    /\ timeFormat' = Str(parseTime(days))
    /\ UNCHANGED <<days, SLACK_USERS, gitUsername, slackName, retryVars, runVars>>

\* ---- getSlackUsername ----
SlackInit ==
    /\ days = 0 /\ timeFormat = Undefined
    /\ SLACK_USERS \in {Undefined} \cup {Str(x) : x \in StringsUpTo(MaxEnvLen)}
    /\ gitUsername \in Logins
    /\ slackName = Undefined
    /\ RetryIdle /\ RunIdle

GetSlackUsernameCall ==
    /\ ~slackName.def
    /\ slackName' = Str(getSlackUsername(SLACK_USERS, gitUsername))
    /\ UNCHANGED <<days, timeFormat, SLACK_USERS, gitUsername, retryVars, runVars>>

\* ---- makeRequestWithRetry ----
\* the wrapper has been called and its first request is in flight
RetryInit ==
    /\ PureIdle
    /\ maxRetries \in 1..MaxMaxRetries
    /\ call = newCall /\ calls = 1 /\ waits = <<>> /\ failures = 0
    /\ RunIdle

\* the request in flight resolves with the response of this invocation
RetryResolve ==
    /\ call.st = "request"
    /\ call' = requestResolved(call, calls)
    /\ UNCHANGED <<maxRetries, calls, waits, failures, pureVars, runVars>>

\* the request in flight rejects
RetryReject ==
    /\ call.st = "request"
    /\ \E error \in Errors(calls) :
         /\ call' = requestRejected(call, maxRetries, error)
         /\ waits' = IF call'.st = "wait"
                      THEN Append(waits, timerDelay(waitTime(error, call.attempt)))
                      ELSE waits
    /\ failures' = failures + 1
    /\ UNCHANGED <<maxRetries, calls, pureVars, runVars>>

\* the timer of the wait fires: the next attempt issues the request again
RetryTimer ==
    /\ call.st = "wait"
    /\ call' = timerFired(call)
    /\ calls' = calls + 1
    /\ UNCHANGED <<maxRetries, waits, failures, pureVars, runVars>>

SpecParse == ParseInit /\ [][ParseTimeCall]_vars
SpecSlack == SlackInit /\ [][GetSlackUsernameCall]_vars
SpecRetry == RetryInit /\ [][RetryResolve \/ RetryReject \/ RetryTimer]_vars

(***************************************************************************)
(* Claims                                                                  *)
(***************************************************************************)
\* the day count of an integer number of days
wholeDays == days % TicksPerDay = 0
dayCount == days \div TicksPerDay

\* C2: for every non-negative integer day count d, parseTime(d) reports
\* years = d div 365, months = (d mod 365) div 30 and
\* days = (d mod 365) mod 30; 30 days gives "1 month" and 400 days gives
\* "1 year 1 month 5 days".
C2_ParseTimeDecomposition ==
    (timeFormat.def /\ wholeDays) =>
        /\ timeFormat.s = formatTime(dayCount \div 365, (dayCount % 365) \div 30,
                                     (dayCount % 365) % 30)
        /\ (dayCount = 30 => timeFormat.s = "1 month")
        /\ (dayCount = 400 => timeFormat.s = "1 year 1 month 5 days")

\* the handle the mapping gives login: the part after the first colon of the
\* last entry "login:handle" of the comma-separated list
mappedHandle == fromEntriesGet(slackUserEntries(SLACK_USERS), gitUsername)

\* C3: getSlackUsername(L) returns "<handle> (L)" when the mapping has an
\* entry L:<handle>, and "@L" when it has no entry for L (also when
\* SLACK_USERS is unset or empty).
C3_MentionResolution ==
    slackName.def =>
        slackName.s = IF mappedHandle.def
                      THEN mappedHandle.s \o " (" \o gitUsername \o ")"
                      ELSE "@" \o gitUsername

\* C4: with attempt budget M and 0 <= k < M, if the operation fails on its
\* first k invocations and succeeds on invocation k+1, the wrapper returns
\* that success value, has invoked the operation exactly k+1 times and has
\* waited exactly k times; it does not give up while fewer than M
\* invocations have failed.
C4_RetryThenSuccess ==
    /\ call.st = "returned" =>
          /\ failures < maxRetries
          /\ call.val = calls
          /\ calls = failures + 1
          /\ Len(waits) = failures
    /\ failures < maxRetries =>
          /\ call.st # "thrown"
          /\ (call.st = "request" => calls = failures + 1 /\ Len(waits) = failures)
          /\ (call.st = "wait" => calls = failures /\ Len(waits) = failures)

\* two failures, then the third invocation succeeds, with the default budget
C4_Witness ==
    /\ maxRetries = DefaultMaxRetries /\ call.st = "returned"
    /\ failures = 2 /\ calls = 3 /\ Len(waits) = 2

\* C5: if the operation fails on every invocation, the wrapper invokes it
\* exactly M times and never more, waits exactly M-1 times with no wait
\* after the final failure, and throws the error of the M-th attempt,
\* whatever mix of rate-limit and other failures occurred.
C5_RetryExhaustion ==
    /\ calls <= maxRetries
    /\ failures >= maxRetries =>
          /\ call.st = "thrown"
          /\ failures = maxRetries
          /\ calls = maxRetries
          /\ Len(waits) = maxRetries - 1
          /\ call.err.id = maxRetries
    /\ call.st = "thrown" => failures = maxRetries

\* the default budget is exhausted after a rate-limit wait and a backoff wait
C5_Witness ==
    /\ maxRetries = DefaultMaxRetries /\ call.st = "thrown"
    /\ calls = 5 /\ Len(waits) = 4
    /\ waits[1] = 60000 /\ waits[2] = 4000

\* ---- the lists of a run ----
\* the branches getAllBranches returned
enumerated == {branches[j] : j \in 1..Len(branches)}

\* the names on the list of the j-th author
namesOf(m, j) == {m[j].list[k].name : k \in 1..Len(m[j].list)}

\* branch b is on the list of some author
appears(b) ==
    \E j \in 1..Len(staleBranchesByAuthor) :
        nameOf(b) \in namesOf(staleBranchesByAuthor, j)

\* the commit of branch b was received
fetchSucceeded(b) ==
    IF variant = "src" THEN b \in classified
    ELSE b \in DOMAIN task /\ task[b].st = "done"

\* the commit of branch b has a committer timestamp that is a date
dateAvailable(b) == commitOf(b).date.def /\ commitOf(b).date.valid

\* the age of the commit of branch b is at least the threshold (no age is
\* at least a threshold that is not a number)
oldEnough(b) ==
    /\ ~daysBeforeStale.nan
    /\ Now - commitOf(b).date.time >= daysBeforeStale.v * TicksPerDay

\* every branch has been classified and the lists are complete
classificationFinished ==
    \/ pc \in {"notify", "post"}
    \/ pc = "done" /\ ~failed.def

\* C1: after classification finishes, every enumerated branch whose commit
\* fetch succeeded appears in some author's list iff its age is at least the
\* threshold and its commit date is available; a branch whose committer
\* timestamp is absent or malformed is never included, whatever the
\* threshold.
C1_StaleIffOldEnough ==
    /\ classificationFinished =>
          \A b \in enumerated :
              fetchSucceeded(b) => (appears(b) <=> (dateAvailable(b) /\ oldEnough(b)))
    /\ \A b \in enumerated : ~dateAvailable(b) => ~appears(b)

\* the sequence 1, 2, ..., n
seqTo(n) == [j \in 1..n |-> j]

\* getAllBranches has returned without a failed page fetch
returnedNormally ==
    \/ variant = "src" /\ pc = "classify" /\ listCall.st # "thrown"
    \/ variant = "root" /\ pc = "oldFetch"

\* C6: when every page fetch succeeds, getAllBranches fetches the pages
\* 1, 2, ... in order with page size 100, asks for a further page only after
\* a full page, stops after the first page of fewer than 100 items having
\* fetched exactly floor(N/100)+1 pages, and returns the N branches in page
\* order, none dropped or duplicated.
C6_Pagination ==
    /\ pagesFetched = seqTo(Len(pagesFetched))
    /\ pc = "enumerate" =>
          /\ page = Len(pagesFetched) + 1
          /\ branches = seqTo(100 * Len(pagesFetched))
          /\ 100 * Len(pagesFetched) <= repoSize
    /\ returnedNormally =>
          /\ Len(pagesFetched) = (repoSize \div 100) + 1
          /\ branches = seqTo(repoSize)

\* 250 branches: three pages fetched, 250 branches returned
C6_Witness ==
    /\ variant = "src" /\ repoSize = 250 /\ returnedNormally
    /\ pagesFetched = <<1, 2, 3>> /\ Len(branches) = 250

\* every enumerated branch has been classified or has had its failure caught
allSettled == enumerated \subseteq classified \cup warned

\* the commit of branch b is old enough to be listed
stale(b) == dateAvailable(b) /\ oldEnough(b)

\* the notifier has started (or the run ended in its setup, with no branch
\* enumerated)
notifierStarted == pc \in {"notify", "post", "done"}

\* the run is marked failed only by a POST to the webhook that failed
failedOnlyByPost ==
    failed.def =>
        /\ failed.s = RequestFailed /\ pc = "done"
        /\ author <= Len(staleBranchesByAuthor)
        /\ Len(posts) = author - 1

\* the messages posted are those of the first authors, in order, each with
\* the author's list
postsFollowLists ==
    /\ Len(posts) <= Len(staleBranchesByAuthor)
    /\ \A j \in 1..Len(posts) :
          /\ posts[j].author = staleBranchesByAuthor[j].author
          /\ posts[j].list = staleBranchesByAuthor[j].list

\* C7: if fetching page p fails after the wrapper's last attempt,
\* getAllBranches does not throw: it returns exactly the branches of the
\* pages 1..p-1, fetches no further page, and the run goes on to classify
\* and notify for that partial list without being marked failed by it.
C7_PartialEnumeration ==
    listCall.st = "thrown" =>
        /\ pc # "enumerate"
        /\ pagesFetched = seqTo(page - 1)
        /\ branches = seqTo(per_page * (page - 1))
        /\ failedOnlyByPost
        /\ notifierStarted =>
              /\ allSettled
              /\ \A b \in enumerated \ warned : appears(b) <=> stale(b)
              /\ postsFollowLists
        /\ (pc = "done" /\ ~failed.def) => Len(posts) = Len(staleBranchesByAuthor)

\* page 2 of a repository of 101 branches failed: the run ended unfailed
\* having posted the stale branches of page 1
C7_Witness ==
    /\ listCall.st = "thrown" /\ page = 2 /\ repoSize = 101
    /\ Len(branches) = 100
    /\ pc = "done" /\ ~failed.def
    /\ Len(posts) = 1 /\ posts[1].author = "alice" /\ Len(posts[1].list) = 8

finishedPositions == 1..Min(i, Len(branches))

\* C9: during classification at most 10 tasks are in flight, all of the
\* current batch, and no task of a batch starts until every task of the
\* batches before it has finished, by success or by a caught failure, its
\* retry waits included.
C9_BatchesOfTen ==
    /\ Cardinality(DOMAIN task) <= 10
    /\ DOMAIN task \subseteq batchBranches(branches, i)
    /\ DOMAIN task # {} => pc = "batch"
    /\ DOMAIN task \cap (classified \cup warned) = {}
    /\ \A j \in finishedPositions : branches[j] \in classified \cup warned
    /\ \A b \in classified \cup warned :
          \E j \in 1..Min(i + batchSize, Len(branches)) : branches[j] = b

\* the ten tasks of the second batch are in flight, one of them in a retry
\* wait, after a first batch that ended with a caught failure
C9_Witness ==
    /\ i = batchSize /\ Cardinality(DOMAIN task) = 10
    /\ 2 \in warned /\ Cardinality(classified) = 9
    /\ task[11].call.st = "wait"

\* the list is ordered by age, greatest first
nonIncreasing(list) ==
    \A k \in 1..(Len(list) - 1) :
        list[k].daysSinceLastCommit >= list[k + 1].daysSinceLastCommit

\* the ages of a list, in its order
agesOf(list) == [k \in 1..Len(list) |-> list[k].daysSinceLastCommit]

exampleList ==
    << [name |-> "x", daysSinceLastCommit |-> 5],
       [name |-> "y", daysSinceLastCommit |-> 40],
       [name |-> "z", daysSinceLastCommit |-> 12] >>

\* C10: when the notifier starts, every author's list is ordered
\* non-increasing by days since the last commit, whatever order the tasks
\* of the batches completed in, and so is the list of every message posted;
\* the ages [5, 40, 12] of one author are put out as [40, 12, 5].
C10_ListsSorted ==
    /\ notifierStarted =>
          /\ \A j \in 1..Len(staleBranchesByAuthor) :
                nonIncreasing(staleBranchesByAuthor[j].list)
          /\ \A j \in 1..Len(posts) : nonIncreasing(posts[j].list)
    /\ agesOf(sortList(exampleList)) = <<40, 12, 5>>

\* the notifier starts with the three stale branches of alice, the oldest
\* first, although the youngest has the lowest position
C10_Witness ==
    /\ pc = "notify" /\ author = 1 /\ posts = <<>>
    /\ \E j \in 1..Len(staleBranchesByAuthor) :
          /\ staleBranchesByAuthor[j].author = "alice"
          /\ [k \in 1..Len(staleBranchesByAuthor[j].list) |->
                 staleBranchesByAuthor[j].list[k].name] = <<"b5", "b2", "b9">>

\* the branches found stale, and those of them whose commit has author a
staleFound == {b \in classified : stale(b)}
staleOf(a) == {b \in staleFound : authorOf(commitOf(b)) = a}

\* the authors that have at least one stale branch
staleAuthors == {authorOf(commitOf(b)) : b \in staleFound}

\* C11: when no webhook POST fails, the run issues exactly one POST per
\* author that has at least one stale branch and none for any other author
\* (none at all when no branch is stale), and the POST of an author lists
\* exactly the stale branches of that author, each once, and no branch that
\* is not stale.
C11_OnePostPerStaleAuthor ==
    (pc = "done" /\ ~failed.def) =>
        /\ network.post = Len(posts)
        /\ Len(posts) = Cardinality(staleAuthors)
        /\ {posts[j].author : j \in 1..Len(posts)} = staleAuthors
        /\ \A j \in 1..Len(posts) :
              /\ namesOf(posts, j) = {nameOf(b) : b \in staleOf(posts[j].author)}
              /\ Len(posts[j].list) = Cardinality(staleOf(posts[j].author))
              /\ posts[j].text = messageFor(SLACK_USERS, posts[j])

\* a required input or the token is missing
configError ==
    \/ missingInput(inputs.days)
    \/ missingInput(inputs.webhook)
    \/ ~inputs.token.def

\* what setFailed is called with on a configuration error
configMessages ==
    {"Input required and not supplied: days-before-stale",
     "Input required and not supplied: slack-webhook-url",
     "STALE_BRANCH_TOKEN environment variable is not defined"}

\* the run has issued no request and has received nothing
noNetworkCall ==
    /\ network = noRequest
    /\ pagesFetched = <<>> /\ branches = <<>>
    /\ DOMAIN task = {} /\ classified \cup warned = {}
    /\ posts = <<>>

\* C12: if days-before-stale, slack-webhook-url or STALE_BRANCH_TOKEN is
\* missing, the run is marked failed and never issues a network call
\* (listBranches, getCommit, webhook POST).
C12_ConfigErrorBeforeNetwork ==
    configError =>
        /\ noNetworkCall
        /\ pc \in {"start", "done"}
        /\ pc = "done" => failed.def /\ failed.s \in configMessages

\* the webhook URL is missing for a repository of 11 branches: the run has
\* ended failed without a request
C12_Witness ==
    /\ ~inputs.webhook.def /\ repoSize = 11
    /\ pc = "done" /\ failed = Str("Input required and not supplied: slack-webhook-url")
    /\ noNetworkCall

\* the seconds a retry-after header asks for
hintSeconds(h) == CASE h = "0" -> 0 [] h = "1" -> 1 [] h = "60" -> 60

\* the failure carries a retry-after hint
hinted(error) == error.retryAfter.def /\ error.retryAfter.s # ""

\* the wait the claim gives after failed attempt a
claimedWait(error, a) ==
    IF error.status = 403 /\ hinted(error)
    THEN hintSeconds(error.retryAfter.s) * 1000
    ELSE 2^a * 1000

\* C13: after failed attempt a < M the wait before the next attempt is
\* r*1000 ms when the failure is a 403 with a retry-after hint of r seconds,
\* and 2^a * 1000 ms in every other case; the a-th wait of a call is
\* therefore 2^a * 1000 ms or a hinted wait, whatever the waits before it
\* were.
C13_WaitDurations ==
    /\ [][(call.st = "request" /\ call'.st = "wait") =>
            /\ call.attempt < maxRetries
            /\ waits' = Append(waits, claimedWait(call'.err, call.attempt))]_vars
    /\ [](\A a \in 1..Len(waits) :
            waits[a] = 2^a * 1000 \/ waits[a] \in {0, 1000, 60000})

\* a rate-limit wait of 60 s between backoff waits: 2 s, 60 s, 8 s, 16 s
C13_Witness ==
    /\ maxRetries = DefaultMaxRetries
    /\ waits = <<2000, 60000, 8000, 16000>>

\* one component as the claim words it: nothing when it is zero, singular
\* when it is 1, plural otherwise
component(n, unit) ==
    IF n = 0 THEN <<>>
    ELSE <<ToString(n) \o " " \o unit \o (IF n = 1 THEN "" ELSE "s")>>

\* the pieces joined by single spaces
RECURSIVE joined(_)
joined(pieces) ==
    IF pieces = <<>> THEN ""
    ELSE IF Len(pieces) = 1 THEN pieces[1]
    ELSE pieces[1] \o " " \o joined(Tail(pieces))

\* C14: for every non-negative integer day count, parseTime emits only the
\* nonzero ones of its components years, months, days, in that order,
\* joined by single spaces without a leading or trailing space, each
\* singular when it is 1 and plural otherwise; it returns "0 days" exactly
\* when the three components are zero, and never the empty string.
C14_ParseTimeFormat ==
    (timeFormat.def /\ wholeDays) =>
        LET y == years(days)
            m == months(days)
            r == remainingDays(days)
            pieces == component(y, "year") \o component(m, "month") \o component(r, "day")
            out == timeFormat.s
        IN  /\ out # ""
            /\ SubSeq(out, 1, 1) # " " /\ SubSeq(out, Len(out), Len(out)) # " "
            /\ (out = "0 days") <=> (y = 0 /\ m = 0 /\ r = 0)
            /\ pieces # <<>> => out = joined(pieces)

\* 761 days: a plural, a singular and a plural component
C14_Witness ==
    /\ wholeDays /\ dayCount = 761
    /\ timeFormat = Str("2 years 1 month 11 days")

\* where branch b stands in the lists: the list and the place in it
placesOf(b) ==
    {<<j, k>> \in (1..Len(staleBranchesByAuthor)) \X (1..Len(branches)) :
        /\ k <= Len(staleBranchesByAuthor[j].list)
        /\ staleBranchesByAuthor[j].list[k].name = nameOf(b)}

\* no two lists have the same author
oneListPerAuthor ==
    \A j, k \in 1..Len(staleBranchesByAuthor) :
        staleBranchesByAuthor[j].author = staleBranchesByAuthor[k].author => j = k

\* C15: under every interleaving of the tasks of a batch no record is lost
\* or duplicated: each branch whose commit was received and is stale stands
\* exactly once in exactly one list, the list of its commit's author login
\* ("UNKNOWN" when there is no login), and a branch that is not stale stands
\* in none.
C15_NoRecordLost ==
    /\ oneListPerAuthor
    /\ \A b \in classified :
          IF stale(b)
          THEN /\ Cardinality(placesOf(b)) = 1
               /\ \A p \in placesOf(b) :
                     staleBranchesByAuthor[p[1]].author = authorOf(commitOf(b))
          ELSE placesOf(b) = {}

\* getAllBranches has not returned yet
enumerating == pc \in {"start", "enumerate"}

\* every list is sorted
allSorted ==
    \A j \in 1..Len(staleBranchesByAuthor) :
        nonIncreasing(staleBranchesByAuthor[j].list)

\* a step in which the task of branch b ends because its getCommit call
\* threw
fetchGivenUp(b) ==
    /\ b \in DOMAIN task /\ b \notin DOMAIN task'
    /\ b \in warned' /\ b \notin classified'

\* C16: the phases of a run are strictly ordered: no commit fetch is issued
\* before getAllBranches has returned, and no webhook POST before every task
\* of every batch has finished and every list has been sorted; every
\* listBranches and getCommit call goes through makeRequestWithRetry: it is
\* in one of the attempts 1..5 and is given up only when its fifth attempt
\* fails.
C16_PhasesOrdered ==
    /\ [](enumerating =>
            /\ ~network.getCommit /\ network.post = 0
            /\ DOMAIN task = {} /\ classified \cup warned = {})
    /\ [](network.getCommit => network.listBranches /\ ~enumerating)
    /\ [](network.post > 0 =>
            /\ network.listBranches /\ ~enumerating
            /\ DOMAIN task = {} /\ allSettled /\ i >= Len(branches)
            /\ allSorted)
    /\ [](/\ listCall.attempt \in 1..DefaultMaxRetries
          /\ \A b \in DOMAIN task : task[b].call.attempt \in 1..DefaultMaxRetries)
    /\ [][/\ (listCall.st # "thrown" /\ listCall'.st = "thrown")
                => listCall.attempt = DefaultMaxRetries
           /\ \A b \in DOMAIN task :
                fetchGivenUp(b) => task[b].call.attempt = DefaultMaxRetries]_vars

\* the first POST is in flight after two batches, the first of which had a
\* task that gave up
C16_Witness ==
    /\ repoSize = 11 /\ pc = "post" /\ network.post = 1 /\ posts = <<>>
    /\ warned = {2} /\ Cardinality(classified) = 10

\* a POST to the webhook has failed
postFailed == failed.def /\ failed.s = RequestFailed

\* C17: if the webhook POST for some author fails, it is attempted only once,
\* no POST is attempted for a later author, the run is marked failed with
\* that error's message, and the POSTs delivered to the earlier authors stay
\* delivered.
C17_PostFailureStopsLoop ==
    /\ [](network.post <= Len(posts) + 1)
    /\ [](postFailed =>
            /\ pc = "done"
            /\ author <= Len(staleBranchesByAuthor)
            /\ Len(posts) = author - 1
            /\ network.post = author
            /\ postsFollowLists)
    /\ [][/\ Len(posts') >= Len(posts)
           /\ SubSeq(posts', 1, Len(posts)) = posts
           /\ ((pc = "post" /\ network'.post = network.post /\ posts' = posts)
                  => (pc' = "done" /\ failed' = Str(RequestFailed)))
           /\ (postFailed => (network' = network /\ failed' = failed))]_vars

\* the third of four POSTs failed: two messages delivered, none attempted
\* for the fourth author
C17_Witness ==
    /\ repoSize = 11 /\ Len(staleBranchesByAuthor) = 4
    /\ postFailed /\ pc = "done"
    /\ author = 3 /\ Len(posts) = 2 /\ network.post = 3

\* a POST was issued and not delivered
postRejected == pc # "post" /\ network.post > Len(posts)

\* a listBranches or getCommit call has been given up
callGivenUp == listCall.st = "thrown" \/ warned # {}

\* C18: the run is marked failed if and only if a configuration error
\* occurred or a webhook POST failed; a listBranches or getCommit call that
\* fails, even at its last attempt, never marks the run failed; and run()
\* never rejects: until it returns it has a next statement to run or is
\* waiting for a request or a timer, and an error that reaches its catch
\* ends in setFailed with the error's message.
C18_FailedIffConfigOrPost ==
    /\ [](failed.def =>
            /\ pc = "done"
            /\ \/ configError /\ failed.s \in configMessages /\ ~postRejected
               \/ ~configError /\ failed.s = RequestFailed /\ postRejected)
    /\ [](pc = "done" /\ (configError \/ postRejected) => failed.def)
    /\ [](pc \in {"start", "enumerate", "classify", "batch", "notify", "post", "done"})
    /\ [](pc = "enumerate" => listCall.st \in {"request", "wait"})
    /\ [](pc = "batch" =>
            \A b \in batchBranches(branches, i) :
                \/ b \in classified \cup warned
                \/ b \in DOMAIN task /\ task[b].call.st \in {"request", "wait"})
    /\ [][(callGivenUp' /\ ~callGivenUp) => failed' = failed /\ pc' # "done"]_vars

\* page 2 and the commit of a branch were given up, and the run ended
\* without being marked failed
C18_Witness ==
    /\ listCall.st = "thrown" /\ page = 2 /\ warned # {}
    /\ pc = "done" /\ ~failed.def /\ Len(posts) = 1

(***************************************************************************)
(* A run of src/index.ts whose requests and timers are all answered        *)
(***************************************************************************)
LiveInit ==
    /\ days = 0 /\ timeFormat = Undefined
    /\ SLACK_USERS = Str("alice:@al") /\ gitUsername = "" /\ slackName = Undefined
    /\ RetryIdle
    /\ variant = "src"
    /\ repository = "main"
    /\ \/ inputs \in RunInputs \ ValidInputs
          /\ \E n \in 0..MaxFewBranches : RunStart(n)
       \/ inputs \in HighInputs
          /\ \E n \in 0..MaxBranches : RunStart(n)

\* Every request is eventually answered, every timer eventually fires, and a
\* continuation that is ready eventually runs.  A POST in flight is
\* answered by PostResolve or by PostReject; both leave the state of having
\* a POST in flight, so asking for one of them asks for the answer.
Answered ==
    \/ Setup
    \/ Enumerate
    \/ StartBatch
    \/ CommitResolve \/ CommitReject \/ CommitTimer
    \/ BatchDone
    \/ SortLists
    \/ PostSend \/ PostReject
    \/ Finish

SpecLive == LiveInit /\ [][Next]_vars /\ WF_vars(Answered)

\* the run has ended: it returned, marked failed or not
terminated == pc = "done"

\* getAllBranches stopped at the first page that was short or failed
stoppedAtFirstShortOrFailedPage ==
    LET n == Len(pagesFetched)
    IN  IF listCall.st = "thrown"
        THEN branches = seqTo(per_page * n) /\ per_page * n <= repoSize
        ELSE /\ n >= 1 /\ branches = seqTo(repoSize)
             /\ per_page * (n - 1) <= repoSize /\ repoSize < per_page * n

\* C19: when every network call eventually returns or fails, every run
\* eventually reaches a terminal state, completed or marked failed, and stays
\* there: each retried call makes at most 5 attempts, pagination stops at the
\* first short or failed page, the batch loop starts a task for each
\* enumerated branch exactly once, and the notification loop posts for each
\* author at most once.
C19_Termination ==
    /\ <>terminated
    /\ [][terminated => terminated']_vars
    /\ [](/\ listCall.attempt <= DefaultMaxRetries
          /\ \A b \in DOMAIN task : task[b].call.attempt <= DefaultMaxRetries)
    /\ []((~enumerating /\ ~configError) => stoppedAtFirstShortOrFailedPage)
    /\ [][\A b \in DOMAIN task' \ DOMAIN task :
             b \in enumerated /\ b \notin classified \cup warned]_vars
    /\ []((terminated /\ ~configError) =>
             allSettled /\ classified \cup warned = enumerated /\ DOMAIN task = {})
    /\ [](/\ network.post <= Len(staleBranchesByAuthor)
          /\ oneListPerAuthor
          /\ \A j, k \in 1..Len(posts) : posts[j].author = posts[k].author => j = k)

\* a repository of 11 branches: one short page, two batches, one message, and
\* the run has ended after a commit fetch was given up
C19_Witness ==
    /\ repoSize = 11 /\ terminated /\ ~failed.def
    /\ pagesFetched = <<1>> /\ classified \cup warned = 1..11
    /\ warned # {} /\ Len(posts) = 1

====
